---------------------------- MODULE Spec2Model ----------------------------
(***************************************************************************)
(* Model of the invoice field patch engine of update-invoices-xmls.       *)
(*                                                                         *)
(* The literal-text engine (src/src/parserv2.py) is the one the program    *)
(* runs (src/src/files.py imports it).  A document is a sequence of        *)
(* tokens; every token is the text it stands for, and every literal the    *)
(* code searches for or writes is a sequence of these tokens, so that      *)
(* Python's "in", str.find and str.replace on the text are substring       *)
(* search and replacement on the token sequence.  Line breaks are tokens   *)
(* of their own, because reading and writing a file in text mode           *)
(* translates them.                                                        *)
(***************************************************************************)
EXTENDS Integers, Sequences, FiniteSets, TLC

VARIABLES
    file,      \* text stored at input_path (save() without argument writes there)
    content,   \* XMLHealthInvoiceProcessor._content: None or the cached text
    pc,        \* position of the caller inside process_all / save
    pass,      \* number of process_all runs started on this instance
    orig,      \* history: the file as it was when the instance was constructed
    prev,      \* history: the content on entry to the step executed last
    first,     \* history: the content when the first process_all run returned
    applied,   \* rule harness: the field rules applied so far
    last,      \* rule harness: the field rule applied last
    tdoc,      \* tree engine: the document stored at input_path
    tsoup,     \* tree engine: the attribute _soup
    treads,    \* tree engine: number of times input_path was opened
    tret,      \* tree engine: how the last call of process_all ended
    tsave,     \* tree engine: how the last call of save ended
    twritten,  \* tree engine: the file at the output path
    txml,      \* tree rules: the nested document the rule methods work on
    txml0,     \* tree rules, history: the nested document as it was parsed
    tpc,       \* tree rules: position in the loop body (lines 151-168)
    xml_string, \* tree rules: the text handed to CData
    ifile,     \* two instances: the file stored at each input path
    icontent,  \* two instances: _content of each instance
    ipc,       \* two instances: position of each caller in update_invoice
    iorig,     \* two instances, history: the files as they were at the start
    inbox,     \* mail loop: number of emails get_emails yields
    idx,       \* mail loop: index of the email of the current iteration
    mpc,       \* mail loop: position in the try statement
    zip_temp,  \* mail loop: local variable zip_temp (Drive id of the zip in TMP)
    xml_file,  \* mail loop: local variable xml_file
    pdf_file,  \* mail loop: local variable pdf_file
    tmp,       \* mail loop: Drive ids of the files in the TMP folder
    disk,      \* mail loop: emails whose extracted XML and PDF are on disk
    read,      \* mail loop: emails marked as read
    completed, \* mail loop, history: emails whose try block ran to its end
    attempted, \* mail loop, history: emails whose try block was entered
    deleted,   \* mail loop, history: the calls of drive.delete_file
    unlinked,  \* mail loop, history: the calls of unlink
    merror,    \* mail loop: the exception that left read_email_and_process_it
    outcome    \* mail loop, history: how the try block of each email ended

vars == <<file, content, pc, pass, orig, prev, first>>
ovars == <<applied, last>>
tvars == <<tdoc, tsoup, treads, tret, tsave, twritten>>
uvars == <<txml, txml0, tpc, xml_string>>
ivars == <<ifile, icontent, ipc, iorig>>
mvars == <<inbox, idx, mpc, zip_temp, xml_file, pdf_file, tmp, disk, read,
           completed, attempted, deleted, unlinked, merror, outcome>>
allvars == <<vars, ovars, tvars, uvars, ivars, mvars>>

\* Python's None: as the value of _content (no document is this sequence) and
\* as the result of a failed re.search
None == <<"None">>
NoMatch == "None"

(***************************************************************************)
(* Bounds of the model.                                                    *)
(***************************************************************************)
MaxPieces == 3     \* an input document is made of at most this many pieces
MaxPasses == 2     \* process_all is run at most this many times
MaxGroups == 2     \* a nested document has at most this many groups
MaxCarriers == 3   \* an outer document has at most this many carriers
MaxReads == 2      \* soup() is called at most this many times
MaxParts == 2      \* a document of the two-instance runs has at most this many pieces
MaxEmails == 3     \* get_emails yields at most this many emails

(***************************************************************************)
(* Tokens.                                                                 *)
(***************************************************************************)
NL == "\n"
CRLF == "\r\n"
CR == "\r"
Indent == "                  "

Name(n) == "<Name>" \o n \o "</Name>"
Value(v) == "<Value>" \o v \o "</Value>"
SchemeValue(id, scheme, text) ==
    "<Value schemeID=\"" \o id \o "\" schemeName=\"" \o scheme \o "\">" \o text \o "</Value>"

ValueArray == Value("Array")

Dates == {"2025-07-29", "2025-08-01"}
FecFac(d) == "FecFac: " \o d
Filler == "<cbc:Note>x</cbc:Note>"
\* a date the pattern of issue_date does not match
FecFacOtherFormat == "FecFac: 29/07/2025"

(***************************************************************************)
(* str operations on token sequences.                                      *)
(***************************************************************************)
StartsWith(s, old) ==
    /\ Len(old) <= Len(s)
    /\ SubSeq(s, 1, Len(old)) = old

\* old in s
contains(s, old) ==
    \E i \in 1..(Len(s) - Len(old) + 1) : SubSeq(s, i, i + Len(old) - 1) = old

\* s.replace(old, new, 1): a replacement of the first occurrence only
RECURSIVE replace_first(_, _, _)
replace_first(s, old, new) ==
    IF Len(s) < Len(old) THEN s
    ELSE IF StartsWith(s, old)
         THEN new \o SubSeq(s, Len(old) + 1, Len(s))
         ELSE <<Head(s)>> \o replace_first(Tail(s), old, new)

\* s.replace(old, new): every non-overlapping occurrence, left to right
RECURSIVE replace(_, _, _)
replace(s, old, new) ==
    IF Len(s) < Len(old) THEN s
    ELSE IF StartsWith(s, old)
         THEN new \o replace(SubSeq(s, Len(old) + 1, Len(s)), old, new)
         ELSE <<Head(s)>> \o replace(Tail(s), old, new)

\* number of positions at which old occurs in s
Occ(s, old) ==
    Cardinality({i \in 1..(Len(s) - Len(old) + 1) : SubSeq(s, i, i + Len(old) - 1) = old})

(***************************************************************************)
(* Text-mode file access (pathlib.Path.read_text / write_text).            *)
(***************************************************************************)
\* newline=None on reading: "\r\n" and "\r" are translated to "\n"
universal_newlines(tok) ==
    IF tok \in {CRLF, CR} THEN NL ELSE tok

read_text(f) == [i \in 1..Len(f) |-> universal_newlines(f[i])]

\* newline=None on writing: "\n" is written as os.linesep ("\n" on POSIX)
linesep == "\n"

write_text(c) == [i \in 1..Len(c) |-> IF c[i] = NL THEN linesep ELSE c[i]]

\* the content property: the file is read when nothing is cached
content_get(c, f) == IF c = None THEN read_text(f) ELSE c

(***************************************************************************)
(* TagXML and the tag properties of XMLHealthInvoiceProcessor.             *)
(***************************************************************************)
is_present(original_string, parent) == contains(parent, original_string)

codigo_prestador == <<Name("CODIGO_PRESTADOR"), NL, Indent, ValueArray>>
modalidad_pago ==
    <<Name("MODALIDAD_PAGO"), NL, Indent, SchemeValue("Array", "salud_modalidad_pago.gc", "")>>
cobertura ==
    <<Name("COBERTURA_PLAN_BENEFICIOS"), NL, Indent, SchemeValue("Array", "salud_cobertura.gc", "")>>
numero_contrato == <<Name("NUMERO_CONTRATO"), NL, Indent, ValueArray>>
numero_poliza == <<Name("NUMERO_POLIZA"), NL, Indent, ValueArray>>

evento_pbs == <<"Evento PBS">>
evento_no_pbs == <<"Evento NO PBS">>
line_counter_numeric == <<"</cbc:LineCountNumeric>">>

is_invoice_period_present(c) == contains(c, <<"<cac:InvoicePeriod>">>)
is_subsidiado_present(c) == contains(c, <<"Subsidiado">>)
is_contributivo_present(c) == contains(c, <<"Contributivo">>)

\* issue_date taking the last match instead of the first
issue_date_last(c) ==
    LET hits == {i \in 1..Len(c) : \E d \in Dates : c[i] = "FecFac: " \o d}
    IN  IF hits = {} THEN NoMatch
        ELSE LET i == CHOOSE k \in hits : \A m \in hits : k >= m
             IN  CHOOSE d \in Dates : c[i] = "FecFac: " \o d

\* re.search(r'FecFac: (\d{4}-\d{2}-\d{2})', content): group 1 of the first match
issue_date(c) ==
    LET hits == {i \in 1..Len(c) : \E d \in Dates : c[i] = FecFac(d)}
    IN  IF hits = {} THEN NoMatch
        ELSE LET i == CHOOSE k \in hits : \A m \in hits : k <= m
             IN  CHOOSE d \in Dates : c[i] = FecFac(d)

(***************************************************************************)
(* update_content and the rules.                                           *)
(***************************************************************************)
\* update_content replacing one occurrence only
update_content_once(c, original_string, new_string) ==
    replace_first(c, original_string, new_string)

update_content(c, original_string, new_string) ==
    replace(c, original_string, new_string)

\* logic_codigo_prestador patching every "<Value>Array</Value>" of the document
logic_codigo_prestador_any_slot(c) ==
    IF contains(c, codigo_prestador)
    THEN replace(c, <<ValueArray>>, <<Value("0800185010")>>)
    ELSE c

\* logic_codigo_prestador writing the code as a number (leading zero lost)
logic_codigo_prestador_number(c) ==
    IF contains(c, codigo_prestador)
    THEN replace(c, codigo_prestador,
                 replace(codigo_prestador, <<ValueArray>>, <<Value("800185010")>>))
    ELSE c

logic_codigo_prestador(c) ==
    IF is_present(codigo_prestador, c)
    THEN update_content(c, codigo_prestador,
                        replace(codigo_prestador, <<ValueArray>>, <<Value("0800185010")>>))
    ELSE c

logic_modalidad_pago(c) ==
    IF is_present(modalidad_pago, c)
    THEN update_content(c, modalidad_pago,
            replace(modalidad_pago,
                    <<SchemeValue("Array", "salud_modalidad_pago.gc", "")>>,
                    <<SchemeValue("04", "salud_modalidad_pago.gc", "Pago por evento")>>))
    ELSE c

\* logic_cobertura testing "Evento PBS" before "Evento NO PBS"
logic_cobertura_swapped(c) ==
    IF contains(c, cobertura)
    THEN IF contains(c, evento_pbs)
         THEN replace(c, cobertura,
                 replace(cobertura,
                         <<SchemeValue("Array", "salud_cobertura.gc", "")>>,
                         <<SchemeValue("01", "salud_cobertura.gc",
                                       "Plan de beneficios en salud financiado con UPC")>>))
         ELSE IF contains(c, evento_no_pbs)
         THEN replace(c, cobertura,
                 replace(cobertura,
                         <<SchemeValue("Array", "salud_cobertura.gc", "")>>,
                         <<SchemeValue("02", "salud_cobertura.gc", "Presupuesto máximo")>>))
         ELSE c
    ELSE c

logic_cobertura(c) ==
    IF is_present(cobertura, c)
    THEN IF is_present(evento_no_pbs, c)
         THEN update_content(c, cobertura,
                 replace(cobertura,
                         <<SchemeValue("Array", "salud_cobertura.gc", "")>>,
                         <<SchemeValue("02", "salud_cobertura.gc", "Presupuesto máximo")>>))
         ELSE IF is_present(evento_pbs, c)
         THEN update_content(c, cobertura,
                 replace(cobertura,
                         <<SchemeValue("Array", "salud_cobertura.gc", "")>>,
                         <<SchemeValue("01", "salud_cobertura.gc",
                                       "Plan de beneficios en salud financiado con UPC")>>))
         ELSE c
    ELSE c

\* logic_numero_contrato testing "Contributivo" before "Subsidiado"
logic_numero_contrato_swapped(c) ==
    IF contains(c, numero_contrato)
    THEN IF contains(c, <<"Contributivo">>)
         THEN replace(c, numero_contrato,
                      replace(numero_contrato, <<ValueArray>>, <<Value("3672")>>))
         ELSE IF contains(c, <<"Subsidiado">>)
         THEN replace(c, numero_contrato,
                      replace(numero_contrato, <<ValueArray>>, <<Value("10787")>>))
         ELSE c
    ELSE c

logic_numero_contrato(c) ==
    IF is_present(numero_contrato, c)
    THEN IF is_subsidiado_present(c)
         THEN update_content(c, numero_contrato,
                             replace(numero_contrato, <<ValueArray>>, <<Value("10787")>>))
         ELSE IF is_contributivo_present(c)
         THEN update_content(c, numero_contrato,
                             replace(numero_contrato, <<ValueArray>>, <<Value("3672")>>))
         ELSE c
    ELSE c

\* logic_numero_poliza locating the field by its name marker alone
logic_numero_poliza_by_name(c) ==
    IF contains(c, <<Name("NUMERO_POLIZA")>>)
    THEN replace(c, <<ValueArray>>, <<Value("NA")>>)
    ELSE c

\* logic_numero_poliza that forgets to store the patched text
logic_numero_poliza_dropped(c) == c

logic_numero_poliza(c) ==
    IF is_present(numero_poliza, c)
    THEN update_content(c, numero_poliza,
                        replace(numero_poliza, <<ValueArray>>, <<Value("NA")>>))
    ELSE c

\* the f-string of logic_invoice_period, with d for {issue_date}
new_invoice_period(d) ==
    line_counter_numeric \o
    << NL, "<cac:InvoicePeriod>",
       NL, " <cbc:StartDate>" \o d \o "</cbc:StartDate>",
       NL, " <cbc:StartTime>12:00:00</cbc:StartTime>",
       NL, " <cbc:EndDate>" \o d \o "</cbc:EndDate>",
       NL, " <cbc:EndTime>11:59:59</cbc:EndTime>",
       NL, "</cac:InvoicePeriod>" >>

\* logic_invoice_period without the presence check
logic_invoice_period_unchecked(c) ==
    IF ~contains(c, line_counter_numeric) THEN c
    ELSE IF issue_date(c) = NoMatch THEN c
    ELSE replace(c, line_counter_numeric, new_invoice_period(issue_date(c)))

\* logic_invoice_period without the issue-date check
logic_invoice_period_undated(c) ==
    IF contains(c, <<"<cac:InvoicePeriod>">>) THEN c
    ELSE IF ~contains(c, line_counter_numeric) THEN c
    ELSE replace(c, line_counter_numeric, new_invoice_period(issue_date(c)))

logic_invoice_period(c) ==
    IF is_invoice_period_present(c) THEN c
    ELSE IF ~is_present(line_counter_numeric, c) THEN c
    ELSE IF issue_date(c) = NoMatch THEN c
    ELSE update_content(c, line_counter_numeric, new_invoice_period(issue_date(c)))

(***************************************************************************)
(* Input documents.                                                        *)
(***************************************************************************)
ExistingPeriod ==
    << "<cac:InvoicePeriod>",
       NL, " <cbc:StartDate>2025-08-01</cbc:StartDate>",
       NL, " <cbc:EndDate>2025-08-31</cbc:EndDate>",
       NL, "</cac:InvoicePeriod>" >>

\* the policy-number placeholder of a file with Windows line endings
numero_poliza_crlf == <<Name("NUMERO_POLIZA"), CRLF, Indent, ValueArray>>

Pieces ==
    { codigo_prestador, modalidad_pago, cobertura, numero_contrato, numero_poliza,
      evento_no_pbs, evento_pbs, <<"Subsidiado">>, <<"Contributivo">>,
      line_counter_numeric, ExistingPeriod, numero_poliza_crlf, <<Filler>>,
      <<FecFacOtherFormat>> }
    \cup { <<FecFac(d)>> : d \in Dates }

RECURSIVE Flatten(_)
Flatten(ps) == IF ps = <<>> THEN <<>> ELSE Head(ps) \o Flatten(Tail(ps))

Docs == UNION { { Flatten(ps) : ps \in [1..n -> Pieces] } : n \in 0..MaxPieces }

(***************************************************************************)
(* The instance after construction and its operations.                     *)
(***************************************************************************)
Init ==
    /\ orig \in Docs
    /\ file = orig
    /\ content = None
    /\ pc = "idle"
    /\ pass = 0
    /\ prev = None
    /\ first = None

\* one rule of process_all: the content is read through the property (and
\* cached), the rule is applied, and control goes on to the next rule
Step(here, next, result) ==
    /\ pc = here
    /\ prev' = content_get(content, file)
    /\ content' = result
    /\ pc' = next
    /\ UNCHANGED <<file, pass, orig, first>>

process_all ==
    /\ pc \in {"idle", "done", "saved"}
    /\ pass < MaxPasses
    /\ pass' = pass + 1
    /\ pc' = "cobertura"
    /\ UNCHANGED <<file, content, orig, prev, first>>

do_cobertura ==
    Step("cobertura", "codigo_prestador", logic_cobertura(content_get(content, file)))

do_codigo_prestador ==
    Step("codigo_prestador", "modalidad_pago", logic_codigo_prestador(content_get(content, file)))

do_modalidad_pago ==
    Step("modalidad_pago", "numero_contrato", logic_modalidad_pago(content_get(content, file)))

do_numero_contrato ==
    Step("numero_contrato", "numero_poliza", logic_numero_contrato(content_get(content, file)))

do_numero_poliza ==
    Step("numero_poliza", "invoice_period", logic_numero_poliza(content_get(content, file)))

do_invoice_period ==
    /\ pc = "invoice_period"
    /\ prev' = content_get(content, file)
    /\ content' = logic_invoice_period(content_get(content, file))
    /\ first' = IF pass = 1 THEN content' ELSE first
    /\ pc' = "done"
    /\ UNCHANGED <<file, pass, orig>>

\* save() as File.update_invoice calls it: output_path is the input path
save ==
    /\ pc = "done"
    /\ content' = content_get(content, file)
    /\ file' = write_text(content')
    /\ pc' = "saved"
    /\ UNCHANGED <<pass, orig, prev, first>>

\* the document the rules work on: the input file as read_text returns it
Input == read_text(orig)

TypeOK ==
    /\ pc \in {"idle", "cobertura", "codigo_prestador", "modalidad_pago",
               "numero_contrato", "numero_poliza", "invoice_period", "done", "saved"}
    /\ pass \in 0..MaxPasses

(***************************************************************************)
(* The five field rules applied one by one in any order: each logic_*      *)
(* method is a public operation of the instance.                           *)
(***************************************************************************)
FieldRules ==
    {"cobertura", "codigo_prestador", "modalidad_pago", "numero_contrato", "numero_poliza"}

\* placeholders that miss the exact shape: other whitespace, a filled slot,
\* another attribute list, an already patched slot
codigo_prestador_one_space == <<Name("CODIGO_PRESTADOR"), NL, " ", ValueArray>>
modalidad_pago_filled ==
    <<Name("MODALIDAD_PAGO"), NL, Indent, SchemeValue("Array", "salud_modalidad_pago.gc", "Pago")>>
cobertura_other_attributes ==
    <<Name("COBERTURA_PLAN_BENEFICIOS"), NL, Indent,
      "<Value schemeName=\"salud_cobertura.gc\" schemeID=\"Array\"></Value>">>
numero_poliza_patched == <<Name("NUMERO_POLIZA"), NL, Indent, Value("NA")>>

RulePieces ==
    { codigo_prestador, modalidad_pago, cobertura, numero_contrato, numero_poliza,
      evento_no_pbs, <<"Subsidiado">>,
      codigo_prestador_one_space, modalidad_pago_filled, cobertura_other_attributes,
      numero_poliza_patched }

RuleDocs == UNION { { Flatten(ps) : ps \in [1..n -> RulePieces] } : n \in 0..MaxPieces }

InitRules ==
    /\ orig \in RuleDocs
    /\ file = orig
    /\ content = None
    /\ pc = "rules"
    /\ pass = 0
    /\ prev = None
    /\ first = None
    /\ applied = {}
    /\ last = "none"

\* a call of one logic_* method that was not called before
Apply(rule, result) ==
    /\ pc = "rules"
    /\ rule \notin applied
    /\ prev' = content_get(content, file)
    /\ content' = result
    /\ applied' = applied \cup {rule}
    /\ last' = rule
    /\ UNCHANGED <<file, pc, pass, orig, first>>

apply_cobertura == Apply("cobertura", logic_cobertura(content_get(content, file)))
apply_codigo_prestador ==
    Apply("codigo_prestador", logic_codigo_prestador(content_get(content, file)))
apply_modalidad_pago ==
    Apply("modalidad_pago", logic_modalidad_pago(content_get(content, file)))
apply_numero_contrato ==
    Apply("numero_contrato", logic_numero_contrato(content_get(content, file)))
apply_numero_poliza ==
    Apply("numero_poliza", logic_numero_poliza(content_get(content, file)))

\* the five rules in the order of process_all
field_rules_in_order(c) ==
    logic_numero_poliza(
        logic_numero_contrato(
            logic_modalidad_pago(
                logic_codigo_prestador(
                    logic_cobertura(c)))))

(***************************************************************************)
(* The tree-based engine (src/src/parser.py).                              *)
(*                                                                         *)
(* A nested document is a sequence of groups (parent elements), a group a  *)
(* sequence of elements; an element has a tag, its .string (NoString for   *)
(* an element without text) and its schemeID / schemeName attributes.  An  *)
(* outer document is the sequence of its Description carriers, each        *)
(* holding the nested document of its text (<<>> for an empty carrier).    *)
(***************************************************************************)
NoString == NoMatch
NoAttr == NoMatch

Elem(tag, string, id, scheme) ==
    [tag |-> tag, string |-> string, schemeID |-> id, schemeName |-> scheme]

NameEl(n) == Elem("Name", n, NoAttr, NoAttr)
ValueEl(string) == Elem("Value", string, NoAttr, NoAttr)
SchemeEl(id, scheme, string) == Elem("Value", string, id, scheme)
TextEl(tag, string) == Elem(tag, string, NoAttr, NoAttr)

\* positions of the elements of a nested document, in document order
Positions(xml) ==
    UNION { { <<g, i>> : i \in 1..Len(xml[g]) } : g \in 1..Len(xml) }

Before(p, q) == p[1] < q[1] \/ (p[1] = q[1] /\ p[2] < q[2])

NoTag == <<0, 0>>

\* xml.find(tag): the first element with that tag
find(xml, tag) ==
    LET hits == { p \in Positions(xml) : xml[p[1]][p[2]].tag = tag }
    IN  IF hits = {} THEN NoTag
        ELSE CHOOSE p \in hits : \A q \in hits : p = q \/ Before(p, q)

\* xml.find('Name', string=name_text) and then find_next_sibling('Value')
find_next_value_in_xml(xml, name_text) ==
    LET names == { p \in Positions(xml) :
                      /\ xml[p[1]][p[2]].tag = "Name"
                      /\ xml[p[1]][p[2]].string = name_text }
    IN  IF names = {} THEN NoTag
        ELSE LET n == CHOOSE p \in names : \A q \in names : p = q \/ Before(p, q)
                 sibs == { j \in (n[2] + 1)..Len(xml[n[1]]) : xml[n[1]][j].tag = "Value" }
             IN  IF sibs = {} THEN NoTag
                 ELSE <<n[1], CHOOSE j \in sibs : \A k \in sibs : j <= k>>

\* text in xml.text
find_text_in_xml(xml, text) ==
    \E p \in Positions(xml) : xml[p[1]][p[2]].string = text

\* value.string = string, and value['schemeID'] = id when id is given
set_value(xml, p, id, string) ==
    [xml EXCEPT ![p[1]][p[2]] =
        [@ EXCEPT !.string = string,
                  !.schemeID = IF id = NoAttr THEN @ ELSE id]]

string_at(xml, p) == xml[p[1]][p[2]].string
schemeID_at(xml, p) == xml[p[1]][p[2]].schemeID

process_codigo_prestador_in_xml(xml) ==
    LET value == find_next_value_in_xml(xml, "CODIGO_PRESTADOR")
    IN  IF value # NoTag /\ string_at(xml, value) = "Array"
        THEN set_value(xml, value, NoAttr, "0800185010")
        ELSE xml

process_modalidad_pago_in_xml(xml) ==
    LET value == find_next_value_in_xml(xml, "MODALIDAD_PAGO")
    IN  IF value # NoTag /\ schemeID_at(xml, value) = "Array"
        THEN set_value(xml, value, "04", "Pago por evento")
        ELSE xml

process_cobertura_plan_in_xml(xml) ==
    LET value == find_next_value_in_xml(xml, "COBERTURA_PLAN_BENEFICIOS")
    IN  IF value # NoTag /\ schemeID_at(xml, value) = "Array"
        THEN IF find_text_in_xml(xml, "Evento NO PBS")
             THEN set_value(xml, value, "02", "Presupuesto máximo")
             ELSE IF find_text_in_xml(xml, "Evento PBS")
             THEN set_value(xml, value, "01", "Plan de beneficios en salud financiado con UPC")
             ELSE xml
        ELSE xml

process_numero_contrato_in_xml(xml) ==
    LET value == find_next_value_in_xml(xml, "NUMERO_CONTRATO")
    IN  IF value # NoTag /\ string_at(xml, value) = "Array"
        THEN IF find_text_in_xml(xml, "Subsidiado")
             THEN set_value(xml, value, NoAttr, "10787")
             ELSE IF find_text_in_xml(xml, "Contributivo")
             THEN set_value(xml, value, NoAttr, "3672")
             ELSE xml
        ELSE xml

process_numero_poliza_in_xml(xml) ==
    LET value == find_next_value_in_xml(xml, "NUMERO_POLIZA")
    IN  IF value # NoTag /\ string_at(xml, value) = "Array"
        THEN set_value(xml, value, NoAttr, "NA")
        ELSE xml

\* the field rules in the order of the loop body of process_all_description_xmls
process_fields_in_xml(xml) ==
    process_numero_poliza_in_xml(
        process_numero_contrato_in_xml(
            process_cobertura_plan_in_xml(
                process_modalidad_pago_in_xml(
                    process_codigo_prestador_in_xml(xml)))))

\* the three tests of process_invoice_period that let it build a block
period_due(xml) ==
    /\ find(xml, "InvoicePeriod") = NoTag
    /\ find(xml, "LineCountNumeric") # NoTag
    /\ LET issue_date_tag == find(xml, "IssueDate")
       IN  issue_date_tag # NoTag /\ string_at(xml, issue_date_tag) # NoString

(***************************************************************************)
(* Text of a nested document.                                              *)
(*                                                                         *)
(* source_text is the text as the upstream generator writes it (an empty   *)
(* element has a start and an end tag); str_xml is str(nested_xml), the    *)
(* output of bs4 for a document parsed with lxml-xml: the declaration, a   *)
(* line break, and the elements, an empty element as <tag/>.               *)
(***************************************************************************)
declaration == "<?xml version=\"1.0\" encoding=\"utf-8\"?>"

QName(tag) ==
    IF tag \in {"LineCountNumeric", "IssueDate"} THEN "cbc:" \o tag
    ELSE IF tag = "InvoicePeriod" THEN "cac:" \o tag
    ELSE tag

attributes(e) ==
    IF e.schemeID = NoAttr THEN ""
    ELSE " schemeID=\"" \o e.schemeID \o "\" schemeName=\"" \o e.schemeName \o "\""

start_tag(e) == "<" \o QName(e.tag) \o attributes(e) \o ">"
end_tag(e) == "</" \o QName(e.tag) \o ">"

element_source(e) ==
    IF e.tag \in {"Name", "Value"}
    THEN <<start_tag(e) \o (IF e.string = NoString THEN "" ELSE e.string) \o end_tag(e)>>
    ELSE <<start_tag(e), IF e.string = NoString THEN "" ELSE e.string, end_tag(e)>>

element_decode(e) ==
    IF e.string = NoString
    THEN <<"<" \o QName(e.tag) \o attributes(e) \o "/>">>
    ELSE element_source(e)

RECURSIVE group_text(_, _)
group_text(g, decode) ==
    IF g = <<>> THEN <<>>
    ELSE (IF decode THEN element_decode(Head(g)) ELSE element_source(Head(g)))
         \o (IF Len(g) > 1 THEN <<NL, Indent>> ELSE <<NL>>)
         \o group_text(Tail(g), decode)

RECURSIVE nested_text(_, _)
nested_text(xml, decode) ==
    IF xml = <<>> THEN <<>>
    ELSE group_text(Head(xml), decode) \o nested_text(Tail(xml), decode)

source_text(xml) == nested_text(xml, FALSE)

str_xml(xml) == <<declaration, NL>> \o nested_text(xml, TRUE)

\* the declaration clean-up with the test for a second line left out and
\* the text cut at its last line break
strip_declaration_to_last_line(text) ==
    LET breaks == { i \in 1..Len(text) : text[i] = NL }
    IN  IF text # <<>> /\ Head(text) = declaration /\ breaks # {}
        THEN SubSeq(text,
                    (CHOOSE i \in breaks : \A j \in breaks : i >= j) + 1,
                    Len(text))
        ELSE text

\* lines 164-168: xml_string.split('\n', 1), and lines[1] when there is one
strip_declaration(text) ==
    LET breaks == { i \in 1..Len(text) : text[i] = NL }
    IN  IF text # <<>> /\ Head(text) = declaration /\ breaks # {}
        THEN SubSeq(text,
                    (CHOOSE i \in breaks : \A j \in breaks : i <= j) + 1,
                    Len(text))
        ELSE text

(***************************************************************************)
(* Nested documents and outer documents given to the tree-based engine.    *)
(***************************************************************************)
g_codigo_prestador == <<NameEl("CODIGO_PRESTADOR"), ValueEl("Array")>>
g_modalidad_pago ==
    <<NameEl("MODALIDAD_PAGO"), SchemeEl("Array", "salud_modalidad_pago.gc", NoString)>>
g_modalidad_pago_filled ==
    <<NameEl("MODALIDAD_PAGO"), SchemeEl("Array", "salud_modalidad_pago.gc", "Pago")>>
g_cobertura ==
    <<NameEl("COBERTURA_PLAN_BENEFICIOS"), SchemeEl("Array", "salud_cobertura.gc", NoString)>>
g_cobertura_filled ==
    <<NameEl("COBERTURA_PLAN_BENEFICIOS"), SchemeEl("Array", "salud_cobertura.gc", "Plan")>>
g_numero_contrato == <<NameEl("NUMERO_CONTRATO"), ValueEl("Array")>>
g_numero_poliza == <<NameEl("NUMERO_POLIZA"), ValueEl("Array")>>
g_evento_pbs == <<TextEl("Valor", "Evento PBS")>>
g_evento_no_pbs == <<TextEl("Valor", "Evento NO PBS")>>
g_subsidiado == <<TextEl("Valor", "Subsidiado")>>
g_line_count == <<TextEl("LineCountNumeric", "1")>>
g_issue_date == <<TextEl("IssueDate", "2025-07-29")>>
g_invoice_period == <<TextEl("InvoicePeriod", NoString)>>

Groups ==
    { g_codigo_prestador, g_modalidad_pago, g_modalidad_pago_filled, g_cobertura,
      g_cobertura_filled, g_numero_contrato, g_numero_poliza, g_evento_pbs,
      g_evento_no_pbs, g_subsidiado }

NestedDocs == UNION { [1..n -> Groups] : n \in 0..MaxGroups }

CarrierGroups ==
    { g_codigo_prestador, g_modalidad_pago, g_line_count, g_issue_date, g_invoice_period }

CarrierDocs == UNION { [1..n -> CarrierGroups] : n \in 0..MaxGroups }

\* n carriers; those of has_content hold the nested document xml, the
\* others are empty
OuterDoc(n, has_content, xml) ==
    [k \in 1..n |-> IF has_content[k] THEN xml ELSE <<>>]

OuterDocs ==
    UNION { { OuterDoc(n, m, xml) : m \in [1..n -> BOOLEAN], xml \in CarrierDocs }
            : n \in 0..MaxCarriers }

\* the text of the file: every carrier wraps the text of its nested document
RECURSIVE outer_text(_)
outer_text(doc) ==
    IF doc = <<>> THEN <<>>
    ELSE <<"<cbc:Description>">>
         \o (IF Head(doc) = <<>> THEN <<>>
             ELSE <<"<![CDATA[", declaration, NL>> \o source_text(Head(doc)) \o <<"]]>">>)
         \o <<"</cbc:Description>", NL>>
         \o outer_text(Tail(doc))

(***************************************************************************)
(* The tree-based engine as it is called: soup(), process_all(), save().   *)
(*                                                                         *)
(* soup is defined as a method (line 29 carries no decorator), so the      *)
(* expression self.soup is the bound method: it opens no file, and asking  *)
(* it for find_all, find, new_tag or prettify raises AttributeError.       *)
(***************************************************************************)
NotCalled == [status |-> "not called", error |-> "",
              description_xmls_processed |-> 0, invoice_period_added |-> FALSE]

Raised(error) == [status |-> "raised", error |-> error,
                  description_xmls_processed |-> 0, invoice_period_added |-> FALSE]

NoSoup == [set |-> FALSE, tree |-> <<>>]
NoFile == [written |-> FALSE, tree |-> <<>>]

InitTree ==
    /\ tdoc \in OuterDocs
    /\ tsoup = NoSoup
    /\ treads = 0
    /\ tret = NotCalled
    /\ tsave = NotCalled
    /\ twritten = NoFile

\* a call of soup(): _content is None (nothing assigns it after __init__),
\* so the file is opened and parsed and _soup is bound to the new tree
soup ==
    /\ treads < MaxReads
    /\ treads' = treads + 1
    /\ tsoup' = [set |-> TRUE, tree |-> tdoc]
    /\ UNCHANGED <<tdoc, tret, tsave, twritten>>

\* process_all -> process_all_description_xmls -> _get_all_description_xmls:
\* self.soup.find_all raises before a carrier is looked at
tree_process_all ==
    /\ tret' = Raised("AttributeError")
    /\ UNCHANGED <<tdoc, tsoup, treads, tsave, twritten>>

\* save: self.soup.prettify raises before write_text
tree_save ==
    /\ tsave' = Raised("AttributeError")
    /\ UNCHANGED <<tdoc, tsoup, treads, tret, twritten>>

(***************************************************************************)
(* The rule methods of the tree-based engine, called on a nested document  *)
(* in the order of the loop body of process_all_description_xmls, and the  *)
(* text the loop body makes of the result.                                 *)
(***************************************************************************)
InitTreeRules ==
    /\ txml0 \in NestedDocs
    /\ txml = txml0
    /\ tpc = "codigo_prestador"
    /\ xml_string = <<>>

TreeStep(here, next, result) ==
    /\ tpc = here
    /\ tpc' = next
    /\ txml' = result
    /\ UNCHANGED <<txml0, xml_string>>

t_codigo_prestador ==
    TreeStep("codigo_prestador", "modalidad_pago", process_codigo_prestador_in_xml(txml))
t_modalidad_pago ==
    TreeStep("modalidad_pago", "cobertura", process_modalidad_pago_in_xml(txml))
t_cobertura ==
    TreeStep("cobertura", "numero_contrato", process_cobertura_plan_in_xml(txml))
t_numero_contrato ==
    TreeStep("numero_contrato", "numero_poliza", process_numero_contrato_in_xml(txml))
t_numero_poliza ==
    TreeStep("numero_poliza", "str", process_numero_poliza_in_xml(txml))

t_xml_string ==
    /\ tpc = "str"
    /\ tpc' = "cdata"
    /\ xml_string' = strip_declaration(str_xml(txml))
    /\ UNCHANGED <<txml, txml0>>

(***************************************************************************)
(* Two instances of the literal engine, each running File.update_invoice   *)
(* on a file of its own, their steps interleaved.                          *)
(***************************************************************************)
Instances == {1, 2}

\* __init__: every instance is constructed with the path of its own file
input_path(self) == self

\* _content read through one instance for all
instance_content_shared(contents, self) == contents[1]

\* self._content: an attribute of the instance, assigned in __init__
instance_content(contents, self) == contents[self]

\* the content property of instance self
content_of(self) ==
    content_get(instance_content(icontent, self), ifile[input_path(self)])

Parts ==
    { codigo_prestador, numero_contrato, <<"Subsidiado">>,
      <<"</cbc:LineCountNumeric>", FecFac("2025-07-29")>> }

PartDocs == UNION { { Flatten(ps) : ps \in [1..n -> Parts] } : n \in 0..MaxParts }

InitInstances ==
    /\ iorig \in [Instances -> PartDocs]
    /\ ifile = iorig
    /\ icontent = [self \in Instances |-> None]
    /\ ipc = [self \in Instances |-> "cobertura"]

InstanceStep(self, here, next, result) ==
    /\ ipc[self] = here
    /\ ipc' = [ipc EXCEPT ![self] = next]
    /\ icontent' = [icontent EXCEPT ![self] = result]
    /\ UNCHANGED <<ifile, iorig>>

i_cobertura(self) ==
    InstanceStep(self, "cobertura", "codigo_prestador", logic_cobertura(content_of(self)))
i_codigo_prestador(self) ==
    InstanceStep(self, "codigo_prestador", "modalidad_pago",
                 logic_codigo_prestador(content_of(self)))
i_modalidad_pago(self) ==
    InstanceStep(self, "modalidad_pago", "numero_contrato",
                 logic_modalidad_pago(content_of(self)))
i_numero_contrato(self) ==
    InstanceStep(self, "numero_contrato", "numero_poliza",
                 logic_numero_contrato(content_of(self)))
i_numero_poliza(self) ==
    InstanceStep(self, "numero_poliza", "invoice_period",
                 logic_numero_poliza(content_of(self)))
i_invoice_period(self) ==
    InstanceStep(self, "invoice_period", "save", logic_invoice_period(content_of(self)))

i_save(self) ==
    /\ ipc[self] = "save"
    /\ ipc' = [ipc EXCEPT ![self] = "saved"]
    /\ icontent' = [icontent EXCEPT ![self] = content_of(self)]
    /\ ifile' = [ifile EXCEPT ![input_path(self)] = write_text(content_of(self))]
    /\ UNCHANGED iorig

\* process_all and save of one instance run alone on the document f
update_invoice(f) == logic_invoice_period(field_rules_in_order(read_text(f)))

(***************************************************************************)
(* The mail loop (src/src/main.py, Process.read_email_and_process_it).     *)
(*                                                                         *)
(* An email is its index in the sequence get_emails yields; the Drive id   *)
(* of the zip uploaded for an email and the local files extracted for it   *)
(* are named by that index.  A local variable that was never assigned is   *)
(* Unbound.                                                                *)
(***************************************************************************)
Unbound == 0

\* the statements of the try block that call Drive or the file system
TrySteps == <<"upload_zip", "unzip", "rename", "update_invoice", "upload_pdf", "upload_xml">>

StepIndex(step) == CHOOSE i \in 1..Len(TrySteps) : TrySteps[i] = step

\* how the try block ends: no exception, or the step that raised
Outcomes == {"none"} \cup { TrySteps[i] : i \in 1..Len(TrySteps) }

\* the step was executed to its end before the try block was left
Done(step, raised) == raised = "none" \/ StepIndex(step) < StepIndex(raised)

\* the else clause runs whatever the try block did
runs_else_always(raised) == TRUE

\* try ... else: the else clause runs when the try block raised nothing
runs_else(raised) == raised = "none"

InitMail ==
    /\ inbox \in 1..MaxEmails
    /\ idx = 1
    /\ mpc = "try"
    /\ zip_temp = Unbound
    /\ xml_file = Unbound
    /\ pdf_file = Unbound
    /\ tmp = {}
    /\ disk = {}
    /\ read = {}
    /\ completed = {}
    /\ attempted = {}
    /\ deleted = <<>>
    /\ unlinked = {}
    /\ merror = "none"
    /\ outcome = <<>>

\* lines 57-72: the try block up to the statement that raises, and the
\* except clause, which logs
mail_try ==
    /\ mpc = "try"
    /\ \E raised \in Outcomes :
          /\ zip_temp' = IF Done("upload_zip", raised) THEN idx ELSE zip_temp
          /\ tmp' = IF Done("upload_zip", raised) THEN tmp \cup {idx} ELSE tmp
          /\ xml_file' = IF Done("unzip", raised) THEN idx ELSE xml_file
          /\ pdf_file' = IF Done("unzip", raised) THEN idx ELSE pdf_file
          /\ disk' = IF Done("unzip", raised) THEN disk \cup {idx} ELSE disk
          /\ completed' = IF raised = "none" THEN completed \cup {idx} ELSE completed
          /\ mpc' = IF runs_else(raised) THEN "else" ELSE "finally"
          /\ outcome' = Append(outcome, raised)
    /\ attempted' = attempted \cup {idx}
    /\ UNCHANGED <<inbox, idx, read, deleted, unlinked, merror>>

\* lines 73-75: post_exception marks the email as read
mail_else ==
    /\ mpc = "else"
    /\ read' = read \cup {idx}
    /\ mpc' = "finally"
    /\ UNCHANGED <<inbox, idx, zip_temp, xml_file, pdf_file, tmp, disk,
                   completed, attempted, deleted, unlinked, merror, outcome>>

\* line 77 or line 78 reads a local variable that no statement assigned:
\* UnboundLocalError leaves the function (after delete_file, when it is
\* xml_file that is unbound)
mail_finally_unbound ==
    /\ mpc = "finally"
    /\ zip_temp = Unbound \/ (zip_temp \in tmp /\ xml_file = Unbound)
    /\ deleted' = IF zip_temp = Unbound THEN deleted
                  ELSE Append(deleted, [by |-> idx, id |-> zip_temp])
    /\ tmp' = tmp \ {zip_temp}
    /\ merror' = "UnboundLocalError"
    /\ mpc' = "aborted"
    /\ UNCHANGED <<inbox, idx, zip_temp, xml_file, pdf_file, disk, read,
                   completed, attempted, unlinked, outcome>>

\* line 77 with the id of a file that is no longer in Drive: delete_file
\* raises HttpError (404) after its retries and the function is left
mail_finally_not_found ==
    /\ mpc = "finally"
    /\ zip_temp # Unbound
    /\ zip_temp \notin tmp
    /\ deleted' = Append(deleted, [by |-> idx, id |-> zip_temp])
    /\ merror' = "HttpError"
    /\ mpc' = "aborted"
    /\ UNCHANGED <<inbox, idx, zip_temp, xml_file, pdf_file, tmp, disk, read,
                   completed, attempted, unlinked, outcome>>

\* lines 77-81: the zip is deleted from Drive, the two paths are unlinked
\* (missing_ok), and the loop goes on to the next email
mail_finally ==
    /\ mpc = "finally"
    /\ zip_temp \in tmp
    /\ xml_file # Unbound
    /\ deleted' = Append(deleted, [by |-> idx, id |-> zip_temp])
    /\ tmp' = tmp \ {zip_temp}
    /\ unlinked' = unlinked \cup {[by |-> idx, path |-> xml_file], [by |-> idx, path |-> pdf_file]}
    /\ disk' = disk \ {xml_file, pdf_file}
    /\ idx' = idx + 1
    /\ mpc' = IF idx = inbox THEN "done" ELSE "try"
    /\ UNCHANGED <<inbox, zip_temp, xml_file, pdf_file, read, completed, attempted, merror,
                   outcome>>

(***************************************************************************)
(* Specifications.  Each runs one part of the model and leaves the         *)
(* variables of the other parts at rest.                                   *)
(***************************************************************************)
LiteralIdle ==
    /\ file = <<>> /\ content = None /\ pc = "idle" /\ pass = 0
    /\ orig = <<>> /\ prev = None /\ first = None

RulesIdle == applied = {} /\ last = "none"

TreeIdle ==
    /\ tdoc = <<>> /\ tsoup = NoSoup /\ treads = 0
    /\ tret = NotCalled /\ tsave = NotCalled /\ twritten = NoFile

TreeRulesIdle == txml = <<>> /\ txml0 = <<>> /\ tpc = "idle" /\ xml_string = <<>>

InstancesIdle ==
    /\ ifile = <<>> /\ icontent = <<>> /\ ipc = <<>> /\ iorig = <<>>

MailIdle ==
    /\ inbox = 0 /\ idx = 0 /\ mpc = "idle"
    /\ zip_temp = Unbound /\ xml_file = Unbound /\ pdf_file = Unbound
    /\ tmp = {} /\ disk = {} /\ read = {} /\ completed = {} /\ attempted = {}
    /\ deleted = <<>> /\ unlinked = {} /\ merror = "none" /\ outcome = <<>>

\* File.update_invoice on one instance of the literal engine
InitLiteral == Init /\ RulesIdle /\ TreeIdle /\ TreeRulesIdle /\ InstancesIdle /\ MailIdle

LiteralRest == <<ovars, tvars, uvars, ivars, mvars>>

Next ==
    \/ process_all /\ UNCHANGED LiteralRest
    \/ do_cobertura /\ UNCHANGED LiteralRest
    \/ do_codigo_prestador /\ UNCHANGED LiteralRest
    \/ do_modalidad_pago /\ UNCHANGED LiteralRest
    \/ do_numero_contrato /\ UNCHANGED LiteralRest
    \/ do_numero_poliza /\ UNCHANGED LiteralRest
    \/ do_invoice_period /\ UNCHANGED LiteralRest
    \/ save /\ UNCHANGED LiteralRest

Spec == InitLiteral /\ [][Next]_allvars

\* the field rules of one instance called in any order
InitFieldRules == InitRules /\ TreeIdle /\ TreeRulesIdle /\ InstancesIdle /\ MailIdle

RulesRest == <<tvars, uvars, ivars, mvars>>

NextRules ==
    \/ apply_cobertura /\ UNCHANGED RulesRest
    \/ apply_codigo_prestador /\ UNCHANGED RulesRest
    \/ apply_modalidad_pago /\ UNCHANGED RulesRest
    \/ apply_numero_contrato /\ UNCHANGED RulesRest
    \/ apply_numero_poliza /\ UNCHANGED RulesRest

SpecRules == InitFieldRules /\ [][NextRules]_allvars

\* the tree-based engine called through its public methods
InitTreeEngine == InitTree /\ LiteralIdle /\ RulesIdle /\ TreeRulesIdle /\ InstancesIdle /\ MailIdle

TreeRest == <<vars, ovars, uvars, ivars, mvars>>

NextTree ==
    \/ soup /\ UNCHANGED TreeRest
    \/ tree_process_all /\ UNCHANGED TreeRest
    \/ tree_save /\ UNCHANGED TreeRest

SpecTree == InitTreeEngine /\ [][NextTree]_allvars

\* the loop body of process_all_description_xmls on one nested document
InitTreeLoop == InitTreeRules /\ LiteralIdle /\ RulesIdle /\ TreeIdle /\ InstancesIdle /\ MailIdle

TreeRulesRest == <<vars, ovars, tvars, ivars, mvars>>

NextTreeRules ==
    \/ t_codigo_prestador /\ UNCHANGED TreeRulesRest
    \/ t_modalidad_pago /\ UNCHANGED TreeRulesRest
    \/ t_cobertura /\ UNCHANGED TreeRulesRest
    \/ t_numero_contrato /\ UNCHANGED TreeRulesRest
    \/ t_numero_poliza /\ UNCHANGED TreeRulesRest
    \/ t_xml_string /\ UNCHANGED TreeRulesRest

SpecTreeRules == InitTreeLoop /\ [][NextTreeRules]_allvars

\* two instances of the literal engine run side by side
InitPair ==
    InitInstances /\ LiteralIdle /\ RulesIdle /\ TreeIdle /\ TreeRulesIdle /\ MailIdle

InstancesRest == <<vars, ovars, tvars, uvars, mvars>>

NextInstances ==
    \/ \E self \in Instances : i_cobertura(self) /\ UNCHANGED InstancesRest
    \/ \E self \in Instances : i_codigo_prestador(self) /\ UNCHANGED InstancesRest
    \/ \E self \in Instances : i_modalidad_pago(self) /\ UNCHANGED InstancesRest
    \/ \E self \in Instances : i_numero_contrato(self) /\ UNCHANGED InstancesRest
    \/ \E self \in Instances : i_numero_poliza(self) /\ UNCHANGED InstancesRest
    \/ \E self \in Instances : i_invoice_period(self) /\ UNCHANGED InstancesRest
    \/ \E self \in Instances : i_save(self) /\ UNCHANGED InstancesRest

SpecInstances == InitPair /\ [][NextInstances]_allvars

\* one run of read_email_and_process_it
InitMailLoop ==
    InitMail /\ LiteralIdle /\ RulesIdle /\ TreeIdle /\ TreeRulesIdle /\ InstancesIdle

MailRest == <<vars, ovars, tvars, uvars, ivars>>

NextMail ==
    \/ mail_try /\ UNCHANGED MailRest
    \/ mail_else /\ UNCHANGED MailRest
    \/ mail_finally /\ UNCHANGED MailRest
    \/ mail_finally_unbound /\ UNCHANGED MailRest
    \/ mail_finally_not_found /\ UNCHANGED MailRest

SpecMail == InitMailLoop /\ [][NextMail]_allvars

(***************************************************************************)
(* Vocabulary of the properties.                                           *)
(***************************************************************************)
Finished == pc \in {"done", "saved"}

HasPeriod(c) == contains(c, <<"<cac:InvoicePeriod>">>)
HasAnchor(c) == contains(c, <<"</cbc:LineCountNumeric>">>)
HasDate(c) == \E i \in 1..Len(c) : \E d \in Dates : c[i] = "FecFac: " \o d
PeriodCount(c) == Occ(c, <<"<cac:InvoicePeriod>">>)
AnchorCount(c) == Occ(c, <<"</cbc:LineCountNumeric>">>)

Fields == {codigo_prestador, modalidad_pago, cobertura, numero_contrato, numero_poliza}

\* a field's name marker and indentation followed by the value slot v
Slot(field, v) == SubSeq(field, 1, 3) \o <<v>>

(***************************************************************************)
(* C1  Idempotence of the full pipeline: a second run of process_all on    *)
(* the content a first run produced changes nothing, at no step: the       *)
(* content stays the content the first run returned.                       *)
(***************************************************************************)
C1_Idempotent == pass >= 2 => content = first

\* a second run has finished on a document the first run had changed
C1_Witness == pass = 2 /\ pc = "done" /\ first # Input

(***************************************************************************)
(* C2  The period block is never duplicated: a document without a period   *)
(* block holds at most one after process_all, and exactly one when it has  *)
(* an anchor and an issue date, however many anchors it contains.          *)
(***************************************************************************)
C2_PeriodNeverDuplicated ==
    (Finished /\ ~HasPeriod(Input)) =>
        /\ PeriodCount(content) <= 1
        /\ (HasAnchor(Input) /\ HasDate(Input)) => PeriodCount(content) = 1

(***************************************************************************)
(* C3  A document that already contains a period block: the synthesizer    *)
(* step leaves the content as it found it, whatever anchors and issue      *)
(* dates the document holds, and the number of period blocks stays what    *)
(* it was in the input (one stays one).                                    *)
(***************************************************************************)
C3_PeriodPresentUntouched ==
    HasPeriod(Input) =>
        /\ Finished => content = prev
        /\ content # None => PeriodCount(content) = PeriodCount(Input)

\* the synthesizer has run on a document with one period block, an anchor and
\* an issue date: only the presence check keeps it from inserting
C3_Witness ==
    /\ pc = "done"
    /\ PeriodCount(Input) = 1
    /\ HasAnchor(prev)
    /\ HasDate(prev)
    /\ PeriodCount(content) = 1

(***************************************************************************)
(* C4  No-placeholder invariant: after process_all no field's placeholder  *)
(* is found in the document, except the coverage and the contract-number   *)
(* placeholder when neither of the field's context markers is present, and *)
(* then the document holds as many of that placeholder as the input did.   *)
(***************************************************************************)
C4_NoPlaceholderLeft ==
    Finished =>
        \A f \in Fields :
            \/ ~contains(content, f)
            \/ /\ f = cobertura
               /\ ~contains(Input, <<"Evento NO PBS">>)
               /\ ~contains(Input, <<"Evento PBS">>)
               /\ Occ(content, f) = Occ(Input, f)
            \/ /\ f = numero_contrato
               /\ ~contains(Input, <<"Subsidiado">>)
               /\ ~contains(Input, <<"Contributivo">>)
               /\ Occ(content, f) = Occ(Input, f)

\* a coverage placeholder was patched while a contract-number placeholder
\* without context marker stays in the document
C4_Witness ==
    /\ pc = "done"
    /\ contains(Input, cobertura)
    /\ ~contains(content, cobertura)
    /\ contains(Input, numero_contrato)
    /\ contains(content, numero_contrato)

(***************************************************************************)
(* C5  Locality: the content after process_all and the file save writes    *)
(* differ from the input file only in the value slots of located fields    *)
(* and in the inserted period blocks; line endings and everything else     *)
(* are those of the input file.                                            *)
(***************************************************************************)
PatchedValues ==
    { Value("0800185010"), Value("10787"), Value("3672"), Value("NA"),
      SchemeValue("04", "salud_modalidad_pago.gc", "Pago por evento"),
      SchemeValue("02", "salud_cobertura.gc", "Presupuesto máximo"),
      SchemeValue("01", "salud_cobertura.gc", "Plan de beneficios en salud financiado con UPC") }

\* position i of document a is the value slot of a field the engine locates
\* (the engine looks for the field in the text as read)
InLocatedSlot(a, i) ==
    /\ i >= 4
    /\ SubSeq(read_text(a), i - 3, i) \in Fields

\* b[j .. j+11] is a period block placed right after an anchor
InsertedBlockAt(b, j) ==
    /\ j > 1
    /\ j + 11 <= Len(b)
    /\ b[j - 1] = "</cbc:LineCountNumeric>"
    /\ b[j] = "\n"
    /\ b[j + 1] = "<cac:InvoicePeriod>"
    /\ b[j + 11] = "</cac:InvoicePeriod>"

\* a[i..] and b[j..] are equal but for patched value slots and inserted blocks
RECURSIVE SameOutsidePatches(_, _, _, _)
SameOutsidePatches(a, b, i, j) ==
    \/ i > Len(a) /\ j > Len(b)
    \/ /\ i <= Len(a) /\ j <= Len(b)
       /\ a[i] = b[j]
       /\ SameOutsidePatches(a, b, i + 1, j + 1)
    \/ /\ i <= Len(a) /\ j <= Len(b)
       /\ InLocatedSlot(a, i)
       /\ b[j] \in PatchedValues
       /\ SameOutsidePatches(a, b, i + 1, j + 1)
    \/ /\ InsertedBlockAt(b, j)
       /\ SameOutsidePatches(a, b, i, j + 12)

C5_Locality ==
    /\ pc = "done" => SameOutsidePatches(orig, content, 1, 1)
    /\ pc = "saved" => SameOutsidePatches(orig, file, 1, 1)

(***************************************************************************)
(* C6  Contract-number rule, first match wins: every located placeholder   *)
(* slot reads "10787" when the document contains "Subsidiado" (also with   *)
(* "Contributivo" present), "3672" when it contains "Contributivo" and     *)
(* not "Subsidiado", and stays the placeholder when it contains neither.   *)
(***************************************************************************)
C6_ContractNumberRule ==
    (Finished /\ contains(Input, numero_contrato)) =>
        LET n == Occ(Input, numero_contrato)
            slots(v) == Occ(content, Slot(numero_contrato, v))
        IN  IF contains(Input, <<"Subsidiado">>)
            THEN /\ slots(Value("10787")) = n
                 /\ slots(Value("3672")) = 0
                 /\ slots(Value("Array")) = 0
            ELSE IF contains(Input, <<"Contributivo">>)
            THEN /\ slots(Value("3672")) = n
                 /\ slots(Value("10787")) = 0
                 /\ slots(Value("Array")) = 0
            ELSE /\ slots(Value("Array")) = n
                 /\ slots(Value("10787")) = 0
                 /\ slots(Value("3672")) = 0

\* both markers and a placeholder in the input, and the slot reads 10787
C6_Witness ==
    /\ pc = "done"
    /\ contains(Input, numero_contrato)
    /\ contains(Input, <<"Subsidiado">>)
    /\ contains(Input, <<"Contributivo">>)
    /\ contains(content, Slot(numero_contrato, Value("10787")))

(***************************************************************************)
(* C7  Coverage rule, ordered context: every located placeholder slot is   *)
(* set to code "02" / "Presupuesto máximo" when the document contains      *)
(* "Evento NO PBS" (also with "Evento PBS" present), to code "01" / "Plan  *)
(* de beneficios en salud financiado con UPC" when it contains "Evento     *)
(* PBS" and not "Evento NO PBS", and is unchanged when it contains neither.*)
(***************************************************************************)
C7_CoverageRule ==
    (Finished /\ contains(Input, cobertura)) =>
        LET n == Occ(Input, cobertura)
            slots(v) == Occ(content, Slot(cobertura, v))
            empty == "<Value schemeID=\"Array\" schemeName=\"salud_cobertura.gc\"></Value>"
            nopbs == "<Value schemeID=\"02\" schemeName=\"salud_cobertura.gc\">Presupuesto máximo</Value>"
            pbs == "<Value schemeID=\"01\" schemeName=\"salud_cobertura.gc\">Plan de beneficios en salud financiado con UPC</Value>"
        IN  IF contains(Input, <<"Evento NO PBS">>)
            THEN slots(nopbs) = n /\ slots(pbs) = 0 /\ slots(empty) = 0
            ELSE IF contains(Input, <<"Evento PBS">>)
            THEN slots(pbs) = n /\ slots(nopbs) = 0 /\ slots(empty) = 0
            ELSE slots(empty) = n /\ slots(nopbs) = 0 /\ slots(pbs) = 0

\* both markers and a placeholder in the input, and the slot carries code 02
C7_Witness ==
    /\ pc = "done"
    /\ contains(Input, cobertura)
    /\ contains(Input, <<"Evento NO PBS">>)
    /\ contains(Input, <<"Evento PBS">>)
    /\ \E i \in 1..Len(content) :
          content[i] = "<Value schemeID=\"02\" schemeName=\"salud_cobertura.gc\">Presupuesto máximo</Value>"

(***************************************************************************)
(* C8  Context-free rules: every located placeholder of the provider-code, *)
(* payment-modality and policy-number field holds the field's fixed        *)
(* literal after processing, whatever markers and other fields the         *)
(* document contains.                                                      *)
(***************************************************************************)
C8_ContextFreeRules ==
    Finished =>
        /\ Occ(content, Slot(codigo_prestador, "<Value>0800185010</Value>"))
              = Occ(Input, codigo_prestador)
        /\ Occ(content,
               Slot(modalidad_pago,
                    "<Value schemeID=\"04\" schemeName=\"salud_modalidad_pago.gc\">Pago por evento</Value>"))
              = Occ(Input, modalidad_pago)
        /\ Occ(content, Slot(numero_poliza, "<Value>NA</Value>"))
              = Occ(Input, numero_poliza)
        /\ \A f \in {codigo_prestador, modalidad_pago, numero_poliza} : ~contains(content, f)

\* the three placeholders were in the input and the run has finished
C8_Witness ==
    /\ pc = "done"
    /\ contains(Input, codigo_prestador)
    /\ contains(Input, modalidad_pago)
    /\ contains(Input, numero_poliza)
    /\ contains(content, Slot(numero_poliza, "<Value>NA</Value>"))

(***************************************************************************)
(* C9  Period synthesis result: in a document without period block, with   *)
(* an anchor and an issue date, each anchor is directly followed by the    *)
(* inserted period block, whose start date and end date are the first      *)
(* "FecFac" date of the document, with start time 12:00:00 and end time    *)
(* 11:59:59; the document holds no other period block.                     *)
(***************************************************************************)
FirstDate(c, d) ==
    \E i \in 1..Len(c) :
        /\ c[i] = "FecFac: " \o d
        /\ \A j \in 1..(i - 1) : \A e \in Dates : c[j] # "FecFac: " \o e

ExpectedBlock(d) ==
    << "\n", "<cac:InvoicePeriod>",
       "\n", " <cbc:StartDate>" \o d \o "</cbc:StartDate>",
       "\n", " <cbc:StartTime>12:00:00</cbc:StartTime>",
       "\n", " <cbc:EndDate>" \o d \o "</cbc:EndDate>",
       "\n", " <cbc:EndTime>11:59:59</cbc:EndTime>",
       "\n", "</cac:InvoicePeriod>" >>

C9_PeriodSynthesis ==
    (Finished /\ ~HasPeriod(Input) /\ HasAnchor(Input) /\ HasDate(Input)) =>
        \E d \in Dates :
            /\ FirstDate(Input, d)
            /\ \A i \in 1..Len(content) :
                  content[i] = "</cbc:LineCountNumeric>"
                      => SubSeq(content, i + 1, i + 12) = ExpectedBlock(d)
            /\ PeriodCount(content) = AnchorCount(Input)

\* two different issue dates and an anchor in the input, and a block inserted
C9_Witness ==
    /\ pc = "done"
    /\ ~HasPeriod(Input)
    /\ HasAnchor(Input)
    /\ \A d \in Dates : contains(Input, <<"FecFac: " \o d>>)
    /\ HasPeriod(content)

(***************************************************************************)
(* C10  A missing precondition of the synthesis is not fatal: without      *)
(* period block and without anchor or without issue date the synthesizer   *)
(* step ends normally and leaves the content as it found it, patches of    *)
(* the field rules included, and save then writes that content.            *)
(***************************************************************************)
C10_SkippedSynthesisKeepsContent ==
    (Finished /\ ~HasPeriod(prev) /\ (~HasAnchor(prev) \/ ~HasDate(prev))) =>
        /\ content = prev
        /\ pc = "saved" => file = content

\* an anchor but no issue date, a field rule has patched the document, and
\* the document was saved
C10_Witness ==
    /\ pc = "saved"
    /\ ~HasPeriod(prev)
    /\ HasAnchor(prev)
    /\ ~HasDate(prev)
    /\ prev # Input
    /\ file = prev

(***************************************************************************)
(* C11  Locate-miss is a silent no-op: a field rule called on a document   *)
(* that does not hold the field's exact placeholder (field absent, slot    *)
(* already patched, other whitespace or attributes) returns normally and   *)
(* leaves the content as it found it.                                      *)
(***************************************************************************)
PlaceholderOf(rule) ==
    CASE rule = "cobertura" ->
            << "<Name>COBERTURA_PLAN_BENEFICIOS</Name>", "\n", "                  ",
               "<Value schemeID=\"Array\" schemeName=\"salud_cobertura.gc\"></Value>" >>
      [] rule = "codigo_prestador" ->
            << "<Name>CODIGO_PRESTADOR</Name>", "\n", "                  ",
               "<Value>Array</Value>" >>
      [] rule = "modalidad_pago" ->
            << "<Name>MODALIDAD_PAGO</Name>", "\n", "                  ",
               "<Value schemeID=\"Array\" schemeName=\"salud_modalidad_pago.gc\"></Value>" >>
      [] rule = "numero_contrato" ->
            << "<Name>NUMERO_CONTRATO</Name>", "\n", "                  ",
               "<Value>Array</Value>" >>
      [] rule = "numero_poliza" ->
            << "<Name>NUMERO_POLIZA</Name>", "\n", "                  ",
               "<Value>Array</Value>" >>

C11_LocateMissIsNoOp ==
    (last \in FieldRules /\ ~contains(prev, PlaceholderOf(last))) => content = prev

\* the provider-code rule ran last on a document that holds the field with
\* other whitespace, after another rule had patched the document
C11_Witness ==
    /\ last = "codigo_prestador"
    /\ contains(prev, codigo_prestador_one_space)
    /\ ~contains(prev, PlaceholderOf("codigo_prestador"))
    /\ prev # Input
    /\ content = prev

(***************************************************************************)
(* C12  Order-independence of the five field rules: whatever the order in  *)
(* which the five rules are applied, the final content is the one the      *)
(* order of process_all yields; a rule that did nothing does not keep a    *)
(* later rule from patching its field.                                     *)
(***************************************************************************)
C12_OrderIndependent ==
    applied = FieldRules => content = field_rules_in_order(Input)

\* the coverage rule, first in process_all, was applied last and patched its
\* field, after the contract-number rule had found no context marker
C12_Witness ==
    /\ applied = FieldRules
    /\ last = "cobertura"
    /\ contains(prev, PlaceholderOf("cobertura"))
    /\ ~contains(content, PlaceholderOf("cobertura"))
    /\ contains(content, PlaceholderOf("numero_contrato"))

(***************************************************************************)
(* Vocabulary of the properties of the tree-based engine.                  *)
(***************************************************************************)
FieldName(rule) ==
    CASE rule = "cobertura" -> "COBERTURA_PLAN_BENEFICIOS"
      [] rule = "codigo_prestador" -> "CODIGO_PRESTADOR"
      [] rule = "modalidad_pago" -> "MODALIDAD_PAGO"
      [] rule = "numero_contrato" -> "NUMERO_CONTRATO"
      [] rule = "numero_poliza" -> "NUMERO_POLIZA"

\* the carriers as the tree-based engine holds them: the tree of _soup, and
\* the document of the file as long as nothing is parsed
carriers == IF tsoup.set THEN tsoup.tree ELSE tdoc

\* the value slot of a field in a nested document, <<>> when there is none
SlotIn(xml, rule) ==
    LET value == find_next_value_in_xml(xml, FieldName(rule))
    IN  IF value = NoTag THEN <<>> ELSE <<xml[value[1]][value[2]]>>

TreePatched ==
    { rule \in FieldRules :
        \E k \in 1..Len(tdoc) : SlotIn(carriers[k], rule) # SlotIn(tdoc[k], rule) }

TreePeriodAdded ==
    \E k \in 1..Len(tdoc) :
        /\ find(tdoc[k], "InvoicePeriod") = NoTag
        /\ find(carriers[k], "InvoicePeriod") # NoTag

\* what the literal engine does to the text of the same file
LiteralText == read_text(outer_text(tdoc))

LiteralPatched ==
    { rule \in FieldRules :
        /\ contains(LiteralText, PlaceholderOf(rule))
        /\ ~contains(field_rules_in_order(LiteralText), PlaceholderOf(rule)) }

LiteralPeriodAdded ==
    /\ ~HasPeriod(LiteralText)
    /\ HasPeriod(logic_invoice_period(field_rules_in_order(LiteralText)))

TreeCalled == tret.status # "not called"

(***************************************************************************)
(* C13.  Strategy equivalence: on the same document the tree-based engine  *)
(* and the literal engine patch the same set of fields and take the same   *)
(* decision on adding a period block.                                      *)
(***************************************************************************)
C13_StrategyEquivalence ==
    TreeCalled =>
        /\ TreePatched = LiteralPatched
        /\ TreePeriodAdded = LiteralPeriodAdded

(***************************************************************************)
(* C14.  Statistics record: process_all returns a record with the number   *)
(* of nested documents processed and a flag that is true exactly when the  *)
(* run inserted a period block.                                            *)
(***************************************************************************)
C14_StatisticsRecord ==
    TreeCalled =>
        /\ tret.status = "returned"
        /\ tret.description_xmls_processed \in 0..Len(tdoc)
        /\ tret.invoice_period_added = TreePeriodAdded


(***************************************************************************)
(* C15.  Independence of concurrent instances: with the steps of two       *)
(* instances interleaved in any order, the file of an instance stays as    *)
(* it was until that instance saves, and the content and the file an       *)
(* instance ends with are those it produces when run alone.                *)
(***************************************************************************)
C15_InstancesIndependent ==
    \A self \in Instances :
        /\ ipc[self] = "cobertura" => icontent[self] = None
        /\ ipc[self] # "saved" => ifile[input_path(self)] = iorig[input_path(self)]
        /\ ipc[self] = "saved" =>
              /\ icontent[self] = update_invoice(iorig[input_path(self)])
              /\ ifile[input_path(self)] = write_text(update_invoice(iorig[input_path(self)]))

\* instance 1 has saved a patched file while instance 2, on another
\* document, is in the middle of its rules
C15_Witness ==
    /\ ipc[1] = "saved"
    /\ ipc[2] = "numero_contrato"
    /\ iorig[1] # iorig[2]
    /\ ifile[1] # iorig[1]
    /\ icontent[2] # None
    /\ contains(icontent[2], numero_contrato)

(***************************************************************************)
(* C16.  Load-once caching: whatever is called on one instance, the input  *)
(* file is read at most once.                                              *)
(***************************************************************************)
C16_FileReadOnce == treads <= 1

(***************************************************************************)
(* C17.  Placeholder-typed slots are patched only when empty: a payment    *)
(* modality or coverage slot whose schemeID is "Array" and which carries   *)
(* text is left as it is by the rules.                                     *)
(***************************************************************************)
C17_FilledSlotUntouched ==
    \A rule \in {"modalidad_pago", "cobertura"} :
        LET value == find_next_value_in_xml(txml0, FieldName(rule))
        IN  (/\ value # NoTag
             /\ schemeID_at(txml0, value) = "Array"
             /\ string_at(txml0, value) # NoString)
            => SlotIn(txml, rule) = SlotIn(txml0, rule)

C19_CarrierSelection ==
    TreeCalled =>
        LET selected == Len(tdoc) >= 2 /\ tdoc[2] # <<>>
        IN  /\ \A k \in 1..Len(tdoc) :
                  IF k = 2 /\ selected
                  THEN \A rule \in FieldRules :
                          SlotIn(carriers[k], rule)
                              = SlotIn(process_fields_in_xml(tdoc[k]), rule)
                  ELSE carriers[k] = tdoc[k]
            /\ tret.description_xmls_processed = (IF selected THEN 1 ELSE 0)

(***************************************************************************)
(* C20.  Prolog stripping on re-embedding: when the text of the nested     *)
(* document starts with the XML declaration, the text handed to the        *)
(* carrier is that text without its first line, every later line kept,     *)
(* and does not start with the declaration; a text without declaration is  *)
(* handed over as it is.                                                   *)
(***************************************************************************)
C20_DeclarationStripped ==
    tpc = "cdata" =>
        LET text == str_xml(txml)
        IN  IF text # <<>> /\ Head(text) = declaration
            THEN /\ text = <<declaration, NL>> \o xml_string
                 /\ (xml_string = <<>> \/ Head(xml_string) # declaration)
            ELSE xml_string = text

\* a patched nested document of several lines has been turned into text
C20_Witness ==
    /\ tpc = "cdata"
    /\ txml # txml0
    /\ Head(str_xml(txml)) = declaration
    /\ Occ(xml_string, <<NL>>) >= 4
    /\ contains(xml_string, <<Value("0800185010")>>)

(***************************************************************************)
(* Vocabulary of the properties of the mail loop.                          *)
(***************************************************************************)
Ended == mpc \in {"done", "aborted"}

Emails == 1..inbox

(***************************************************************************)
(* C21.  Mark-as-read only after success: an email marked as read is one   *)
(* whose try block (patch of the XML, upload of the PDF and of the XML)    *)
(* ended without an exception; an email with a step that raised is not     *)
(* marked.                                                                 *)
(***************************************************************************)
C21_ReadOnlyAfterSuccess ==
    \A m \in read : m <= Len(outcome) /\ outcome[m] = "none"

\* the first email is marked as read, the second one, whose last upload
\* raised, has left its iteration unmarked
C21_Witness ==
    /\ 1 \in read
    /\ 2 \notin read
    /\ Len(outcome) >= 2
    /\ outcome[2] = "upload_xml"
    /\ idx = 3

(***************************************************************************)
(* C22.  Failure isolation: whatever step of the try block raises, the     *)
(* cleanup raises nothing for an unassigned variable and the loop attempts *)
(* every email of the inbox.                                               *)
(***************************************************************************)
C22_FailureIsolation ==
    /\ merror # "UnboundLocalError"
    /\ Ended => attempted = Emails

(***************************************************************************)
(* C23.  Cleanup targets the current email only: every Drive file deleted  *)
(* and every path unlinked in an iteration belongs to the email of that    *)
(* iteration, no id is deleted twice, and when the loop has ended no zip   *)
(* is left in TMP.                                                         *)
(***************************************************************************)
C23_CleanupOfCurrentEmail ==
    /\ \A i \in 1..Len(deleted) : deleted[i].by = deleted[i].id
    /\ \A i, j \in 1..Len(deleted) : deleted[i].id = deleted[j].id => i = j
    /\ \A u \in unlinked : u.by = u.path
    /\ Ended => tmp = {}

=============================================================================
